---- MODULE Spec2Model ----
\* Model of zaplib/ci/src/cmd.rs: the CI orchestrator. One native thread runs the
\* static HTTPS asset server (server_thread), the main thread (cmd) waits for the
\* server's handle on an mpsc channel, drives the WebDriver sessions (run_tests,
\* test_suite_all_tests_3x), then stops the server and joins its thread.
\*
\* Every `.await` is modelled as a suspension point: the request named in the
\* session's trace has been issued, and the action that follows is the arrival of its
\* response together with all the code up to the next `.await`.
EXTENDS Integers, Sequences, FiniteSets, TLC

\* Number of entries of capabilities_set in farm (Browserstack) mode.
NumConfigs == 2

VARIABLES
    webdriver_url,                  \* TRUE iff --webdriver-url was given (Some)
    browserstack_local_identifier,  \* TRUE iff --browserstack-local-identifier was given (Some)
    entry_point,                    \* [config] TRUE iff window.runAllTests3x appears and settles
    main_pc,                        \* position of the main thread in cmd()
    main_trace,                     \* what the main thread did, in order
    panic_msg,                      \* which unwrap()/panic!() unwound the main thread
    exit_status,                    \* "none" while the process runs, then "0" or "101"
    server_pc,                      \* position of the spawned thread in server_thread()
    server_trace,                   \* what the server thread did, in order
    rx,                             \* content of the mpsc channel (tx, rx)
    tx_alive,                       \* FALSE once tx was dropped
    handles_sent,                   \* number of tx.send(server.handle()) calls
    stop_calls,                     \* number of server_handle.stop(true) calls
    pc,                             \* [config] suspension point of the session's future
    trace,                          \* [config] WebDriver requests and log lines, in order
    errs,                           \* [config] the WebDriver calls that returned Err
    script_value,                   \* [config] value returned by execute_async_script
    result,                         \* [config] what test_suite_all_tests_3x returned
    outcome                         \* [config] outcome produced for the configuration

vars == <<webdriver_url, browserstack_local_identifier, entry_point, main_pc, main_trace,
          panic_msg, exit_status, server_pc, server_trace, rx, tx_alive, handles_sent, stop_calls,
          pc, trace, errs, script_value, result, outcome>>

main_vars == <<main_pc, main_trace, panic_msg>>
server_vars == <<server_pc, server_trace, rx, tx_alive, handles_sent>>
input_vars == <<webdriver_url, browserstack_local_identifier, entry_point>>
session_vars == <<pc, trace, errs, script_value, result, outcome>>

----------------------------------------------------------------------------
\* Values

Configs == 1..NumConfigs

\* The configurations run_tests drives: every key of capabilities_set in farm mode,
\* the single "local browser" otherwise.
capabilities_set == IF browserstack_local_identifier THEN Configs ELSE {1}

\* The is_browserstack argument run_tests passes to test_suite_all_tests_3x.
is_browserstack == browserstack_local_identifier

NoValue == [kind |-> "none", s |-> ""]
\* What the injected script can hand to done(): 'SUCCESS', err.stack, or (if the
\* rejection carries no stack) a value that is not a string.
ScriptValues == { [kind |-> "string", s |-> "SUCCESS"],
                  [kind |-> "string", s |-> "Error: test failed"],
                  [kind |-> "null",   s |-> ""] }

NoResult == [tag |-> "none", msg |-> <<>>]
OkResult == [tag |-> "Ok", msg |-> <<>>]
ErrResult(m) == [tag |-> "Err", msg |-> m]
\* An error returned by the WebDriver client and propagated with `?`.
WebDriverError == ErrResult(<<"WebDriverError">>)

Ev(op, arg) == [op |-> op, arg |-> arg]
Ops(t) == { t[i].op : i \in 1..Len(t) }
Count(t, op) == Cardinality({ i \in 1..Len(t) : t[i].op = op })
\* Suspension points of a session future at which a WebDriver request is in flight.
NonTerminal == {"connecting", "navigating", "scripting", "reporting", "releasing"}

----------------------------------------------------------------------------
\* test_suite_all_tests_3x and the two callers' continuations, as pure steps.
\* A step yields: pc (next suspension point, or "return" when test_suite_all_tests_3x
\* returns), log (events appended to the session's trace), result.

\* value().as_str().unwrap_or("--zaplib_ci: no string was returned--")
as_str_unwrap_or(v) ==
    IF v.kind = "string" THEN v.s ELSE "--zaplib_ci: no string was returned--"

\* Response to driver.get(...).await? and the code up to execute_async_script.
get_step(ok) ==
    IF ok
    THEN [pc |-> "scripting", result |-> NoResult,
          log |-> << Ev("info", <<"Running tests...">>),
                     Ev("info", <<"For console output see the browser/Browserstack directly. See https://github.com/stevepryde/thirtyfour/issues/87">>),
                     Ev("execute_async_script", <<>>) >>]
    ELSE [pc |-> "return", result |-> WebDriverError, log |-> <<>>]

\* script_step that reports to the farm whatever is_browserstack says.
script_step_always_report(ok, v, bs) ==
    IF ~ok THEN [pc |-> "return", result |-> [tag |-> "Err", msg |-> <<"WebDriverError">>],
                 log |-> <<>>]
    ELSE LET str == as_str_unwrap_or(v) IN
      IF str = "SUCCESS"
      THEN [pc |-> "reporting", result |-> NoResult,
            log |-> << Ev("info", <<"Tests passed!">>),
                       Ev("execute_script", <<"passed">>) >>]
      ELSE [pc |-> "reporting", result |-> NoResult,
            log |-> << Ev("error", <<"Tests failed: ", str>>),
                       Ev("execute_script", <<"failed">>) >>]

\* script_step with the farm report issued before the local failure is logged.
script_step_report_first(ok, v, bs) ==
    IF ~ok THEN [pc |-> "return", result |-> [tag |-> "Err", msg |-> <<"WebDriverError">>],
                 log |-> <<>>]
    ELSE LET str == as_str_unwrap_or(v) IN
      IF str = "SUCCESS"
      THEN IF bs
           THEN [pc |-> "reporting", result |-> NoResult,
                 log |-> << Ev("info", <<"Tests passed!">>),
                            Ev("execute_script", <<"passed">>) >>]
           ELSE [pc |-> "return", result |-> OkResult,
                 log |-> << Ev("info", <<"Tests passed!">>) >>]
      ELSE IF bs
           THEN [pc |-> "reporting", result |-> NoResult,
                 log |-> << Ev("execute_script", <<"failed">>),
                            Ev("error", <<"Tests failed: ", str>>) >>]
           ELSE [pc |-> "return", result |-> ErrResult(<<"Tests failed: ", str>>),
                 log |-> <<>>]

\* The match on the script's value: the "SUCCESS" arm and the `str` arm.
script_step(ok, v, bs) ==
    IF ~ok THEN [pc |-> "return", result |-> WebDriverError, log |-> <<>>]
    ELSE LET str == as_str_unwrap_or(v) IN
      IF str = "SUCCESS"
      THEN IF bs
           THEN [pc |-> "reporting", result |-> NoResult,
                 log |-> << Ev("info", <<"Tests passed!">>),
                            Ev("execute_script", <<"passed">>) >>]
           ELSE [pc |-> "return", result |-> OkResult,
                 log |-> << Ev("info", <<"Tests passed!">>) >>]
      ELSE IF bs
           THEN [pc |-> "reporting", result |-> NoResult,
                 log |-> << Ev("error", <<"Tests failed: ", str>>),
                            Ev("execute_script", <<"failed">>) >>]
           ELSE [pc |-> "return", result |-> ErrResult(<<"Tests failed: ", str>>),
                 log |-> <<>>]

\* Response to the setSessionStatus execute_script(...).await? of either arm.
report_step(ok, v) ==
    IF ~ok THEN [pc |-> "return", result |-> WebDriverError, log |-> <<>>]
    ELSE IF as_str_unwrap_or(v) = "SUCCESS"
         THEN [pc |-> "return", result |-> OkResult, log |-> <<>>]
         ELSE [pc |-> "return", result |-> ErrResult(<<"Tests failed (see above)">>),
               log |-> <<>>]

\* after_test_suite that propagates an Err before releasing (farm mode): quit is only
\* issued after an Ok.
after_test_suite_quit_on_ok(r, bs) ==
    IF r.tag = "Ok"
    THEN [pc |-> "releasing", log |-> << Ev("quit", <<>>) >>,
          outcome |-> IF bs THEN "none" ELSE "Passed", panic |-> "none"]
    ELSE IF bs
         THEN [pc |-> "done", log |-> << Ev("error", <<"Run error: ">> \o r.msg) >>,
               outcome |-> "RunFailed", panic |-> "none"]
         ELSE [pc |-> "done", log |-> <<>>,
               outcome |-> "RunFailed", panic |-> "test_suite_all_tests_3x.unwrap"]

\* after_test_suite that matches on the result (farm mode) before it releases.
after_test_suite_outcome_first(r, bs) ==
    IF bs
    THEN [pc |-> "releasing",
          log |-> (IF r.tag = "Err" THEN << Ev("error", <<"Run error: ">> \o r.msg) >>
                                    ELSE <<>>) \o << Ev("quit", <<>>) >>,
          outcome |-> IF r.tag = "Ok" THEN "Passed" ELSE "RunFailed", panic |-> "none"]
    ELSE IF r.tag = "Ok"
         THEN [pc |-> "releasing", log |-> << Ev("quit", <<>>) >>,
               outcome |-> "Passed", panic |-> "none"]
         ELSE [pc |-> "done", log |-> <<>>,
               outcome |-> "RunFailed", panic |-> "test_suite_all_tests_3x.unwrap"]

\* What the caller does when test_suite_all_tests_3x returns r.
\* Farm mode: driver.quit() is issued whatever r is.
\* Local mode: r is unwrapped first; quit is issued only after an Ok.
after_test_suite(r, bs) ==
    IF bs
    THEN [pc |-> "releasing", log |-> << Ev("quit", <<>>) >>,
          outcome |-> "none", panic |-> "none"]
    ELSE IF r.tag = "Ok"
         THEN [pc |-> "releasing", log |-> << Ev("quit", <<>>) >>,
               outcome |-> "Passed", panic |-> "none"]
         ELSE [pc |-> "done", log |-> <<>>,
               outcome |-> "RunFailed", panic |-> "test_suite_all_tests_3x.unwrap"]

\* new_step with the Err arm missing: the session is driven as if it had been opened.
new_step_ignore_err(ok, bs) ==
    [pc |-> "navigating", outcome |-> "none", panic |-> "none",
     log |-> << Ev("info", <<"Connected to WebDriver...">>), Ev("get", <<>>) >>]

\* Response to WebDriver::new(...).await.
new_step(ok, bs) ==
    IF ok
    THEN [pc |-> "navigating", outcome |-> "none", panic |-> "none",
          log |-> << Ev("info", <<"Connected to WebDriver...">>), Ev("get", <<>>) >>]
    ELSE IF bs
         THEN [pc |-> "done", outcome |-> "ConnectionFailed", panic |-> "none",
               log |-> << Ev("error", <<"Connection error">>) >>]
         ELSE [pc |-> "done", outcome |-> "ConnectionFailed",
               panic |-> "WebDriver::new.unwrap", log |-> <<>>]

\* Response to driver.quit().await, then `.unwrap()` and (farm) the match on result.
\* `prev` is the outcome already fixed before the quit (local mode).
quit_step(ok, r, bs, prev) ==
    IF ~ok
    THEN [pc |-> "panicked", outcome |-> prev, panic |-> "quit.unwrap", log |-> <<>>]
    ELSE IF ~bs
         THEN [pc |-> "done", outcome |-> prev, panic |-> "none", log |-> <<>>]
         ELSE IF r.tag = "Err"
              THEN [pc |-> "done", outcome |-> "RunFailed", panic |-> "none",
                    log |-> << Ev("error", <<"Run error: ">> \o r.msg) >>]
              ELSE [pc |-> "done", outcome |-> "Passed", panic |-> "none", log |-> <<>>]

----------------------------------------------------------------------------
\* The mpsc channel and join_all

\* recv that does not notice that the sender was dropped.
recv_ignores_hangup(chan, alive) == IF Len(chan) > 0 THEN "Ok" ELSE "Block"

\* recv that does not wait for the sender.
recv_no_wait(chan, alive) == "Ok"

\* rx.recv(): Ok when a handle is queued, Err when the channel is empty and tx was
\* dropped, blocked otherwise.
recv(chan, alive) ==
    IF Len(chan) > 0 THEN "Ok" ELSE IF ~alive THEN "Err" ELSE "Block"

\* join that does not wait for the thread (a detached thread).
join_no_wait(spc) == "Ok"

\* server_thread.join(): blocks until the thread has ended; Err when it panicked.
join(spc) ==
    IF spc = "exited" THEN "Ok" ELSE IF spc = "panicked" THEN "Err" ELSE "Block"

\* generate_simple_self_signed(..).unwrap() and the builder's unwraps: the thread goes
\* on to bind, or panics.
cert_step(ok) == IF ok THEN "bind" ELSE "panicked"

\* bind_step with the bind error not checked.
bind_step_unchecked(ok) == "send"

\* bind_openssl(..).unwrap(): the thread goes on to tx.send, or panics.
bind_step(ok) == IF ok THEN "send" ELSE "panicked"

\* The futures awaited one after the other instead of joined: a future is polled only
\* when every earlier one has finished.
can_poll_sequential(pcs, c) ==
    pcs[c] \in NonTerminal /\ \A d \in 1..(c-1) : pcs[d] \notin NonTerminal

\* join_all polls every future that has not finished, whatever the others do.
can_poll(pcs, c) == pcs[c] \in NonTerminal

\* join_all(futures).await resolves when every future has produced its output.
join_all_ready(pcs, cfgs) == \A c \in cfgs : pcs[c] = "done"

\* The reduction `for result in join_all(..) { if !result { panic!(..) } }`.
any_failed(outs, cfgs) == \E c \in cfgs : outs[c] # "Passed"

----------------------------------------------------------------------------
\* cmd() up to the spawn of the server thread. arg_required_else_help(true) makes
\* get_matches exit when no argument is given, so at least one of the two is present.
Init ==
    /\ webdriver_url \in BOOLEAN
    /\ browserstack_local_identifier \in BOOLEAN
    /\ webdriver_url \/ browserstack_local_identifier
    /\ entry_point \in [Configs -> BOOLEAN]
    /\ main_pc = "recv"
    /\ main_trace = << "spawn" >>
    /\ panic_msg = "none"
    /\ exit_status = "none"
    /\ server_pc = "cert"
    /\ server_trace = <<>>
    /\ rx = <<>>
    /\ tx_alive = TRUE
    /\ handles_sent = 0
    /\ stop_calls = 0
    /\ pc = [c \in Configs |-> "init"]
    /\ trace = [c \in Configs |-> <<>>]
    /\ errs = [c \in Configs |-> {}]
    /\ script_value = [c \in Configs |-> NoValue]
    /\ result = [c \in Configs |-> NoResult]
    /\ outcome = [c \in Configs |-> "none"]

----------------------------------------------------------------------------
\* server_thread (the spawned thread)

\* generate_simple_self_signed(..).unwrap() and the SslAcceptor set-up.
ServerCert ==
    /\ server_pc = "cert"
    /\ exit_status = "none"
    /\ \E ok \in BOOLEAN :
         /\ server_pc' = cert_step(ok)
         /\ tx_alive' = (cert_step(ok) # "panicked")
         /\ server_trace' = Append(server_trace, IF ok THEN "cert_ok" ELSE "cert_err")
    /\ UNCHANGED <<rx, handles_sent, stop_calls>>
    /\ UNCHANGED <<main_vars, exit_status, input_vars, session_vars>>

\* HttpServer::new(..).bind_openssl(..).unwrap().workers(2).run()
ServerBind ==
    /\ server_pc = "bind"
    /\ exit_status = "none"
    /\ \E ok \in BOOLEAN :
         /\ server_pc' = bind_step(ok)
         /\ tx_alive' = (bind_step(ok) # "panicked")
         /\ server_trace' = Append(server_trace, IF ok THEN "bind_ok" ELSE "bind_err")
    /\ UNCHANGED <<rx, handles_sent, stop_calls>>
    /\ UNCHANGED <<main_vars, exit_status, input_vars, session_vars>>

\* tx.send(server.handle()).unwrap(); then the thread sits in server.await.
ServerSend ==
    /\ server_pc = "send"
    /\ exit_status = "none"
    /\ rx' = Append(rx, "handle")
    /\ handles_sent' = handles_sent + 1
    /\ server_pc' = "serving"
    /\ server_trace' = Append(server_trace, "send")
    /\ UNCHANGED <<tx_alive, stop_calls>>
    /\ UNCHANGED <<main_vars, exit_status, input_vars, session_vars>>

\* The server acts on the stop command: the listener is closed and the workers are
\* stopped, which resolves the future returned by stop(true).
ServerStop ==
    /\ server_pc = "serving"
    /\ exit_status = "none"
    /\ stop_calls > 0
    /\ server_pc' = "stopped"
    /\ server_trace' = Append(server_trace, "stopped")
    /\ UNCHANGED <<rx, tx_alive, handles_sent, stop_calls>>
    /\ UNCHANGED <<main_vars, exit_status, input_vars, session_vars>>

\* server.await.unwrap() returns; server_thread ends (tx is dropped) or panics.
ServerExit ==
    /\ server_pc = "stopped"
    /\ exit_status = "none"
    /\ \E ok \in BOOLEAN :
         /\ server_pc' = IF ok THEN "exited" ELSE "panicked"
         /\ server_trace' = Append(server_trace, IF ok THEN "await_ok" ELSE "await_err")
    /\ tx_alive' = FALSE
    /\ UNCHANGED <<rx, handles_sent, stop_calls>>
    /\ UNCHANGED <<main_vars, exit_status, input_vars, session_vars>>

----------------------------------------------------------------------------
\* cmd (the main thread)

\* let server_handle = rx.recv().unwrap();
MainRecv ==
    /\ main_pc = "recv"
    /\ recv(rx, tx_alive) # "Block"
    /\ IF recv(rx, tx_alive) = "Ok"
       THEN /\ rx' = SubSeq(rx, 2, Len(rx))
            /\ main_pc' = "run_tests"
            /\ main_trace' = Append(main_trace, "recv")
            /\ panic_msg' = panic_msg
       ELSE /\ rx' = rx
            /\ main_pc' = "panicked"
            /\ main_trace' = main_trace
            /\ panic_msg' = "recv.unwrap"
    /\ UNCHANGED <<server_pc, server_trace, tx_alive, handles_sent, stop_calls>>
    /\ UNCHANGED <<exit_status, input_vars, session_vars>>

\* matches.value_of("webdriver-url").unwrap(), then run_tests up to the first poll of
\* the session futures: each one issues its WebDriver::new request.
MainRunTests ==
    /\ main_pc = "run_tests"
    /\ IF webdriver_url
       THEN /\ main_pc' = "sessions"
            /\ main_trace' = Append(main_trace, "run_tests")
            /\ panic_msg' = panic_msg
            /\ pc' = [c \in Configs |->
                        IF c \in capabilities_set THEN "connecting" ELSE pc[c]]
            /\ trace' = [c \in Configs |->
                        IF c \in capabilities_set
                        THEN << Ev("WebDriver::new", <<>>) >> ELSE trace[c]]
       ELSE /\ main_pc' = "panicked"
            /\ main_trace' = main_trace
            /\ panic_msg' = "webdriver-url.unwrap"
            /\ UNCHANGED <<pc, trace>>
    /\ UNCHANGED <<errs, script_value, result, outcome>>
    /\ UNCHANGED <<server_vars, stop_calls, exit_status, input_vars>>

----------------------------------------------------------------------------
\* run_tests: the session futures. In farm mode they are polled by join_all on the
\* main thread and interleave at their suspension points; in local mode the single
\* session runs inline.

\* A panic raised while a session future is being polled unwinds run_tests and
\* block_on: the panicking future stops at `at`, every other future that has not
\* finished is dropped where it is suspended.
unwind(pcs, c, at) ==
    [d \in Configs |-> IF d = c THEN at
                       ELSE IF pcs[d] \in NonTerminal THEN "abandoned" ELSE pcs[d]]

\* Common tail of every session action: record the effects on configuration c and,
\* when the step panicked, unwind the main thread.
Advance(c, at, log, res, out, panic) ==
    /\ trace' = [trace EXCEPT ![c] = @ \o log]
    /\ result' = [result EXCEPT ![c] = res]
    /\ outcome' = [outcome EXCEPT ![c] = out]
    /\ IF panic = "none"
       THEN /\ pc' = [pc EXCEPT ![c] = at]
            /\ panic_msg' = panic_msg
            \* local mode: run_tests returns once the single session is done
            /\ IF at = "done" /\ ~is_browserstack
               THEN main_pc' = "stop" /\ main_trace' = Append(main_trace, "returned")
               ELSE main_pc' = main_pc /\ main_trace' = main_trace
       ELSE /\ pc' = unwind(pc, c, at)
            /\ panic_msg' = panic
            /\ main_pc' = "panicked"
            /\ main_trace' = main_trace

\* A step of test_suite_all_tests_3x on configuration c, followed by the caller's
\* continuation when the step makes the function return.
TestSuiteStep(c, s) ==
    IF s.pc = "return"
    THEN LET a == after_test_suite(s.result, is_browserstack) IN
         Advance(c, a.pc, s.log \o a.log, s.result, a.outcome, a.panic)
    ELSE Advance(c, s.pc, s.log, s.result, outcome[c], "none")

\* WebDriver::new(..).await resolves.
SessionNew(c) ==
    /\ main_pc = "sessions"
    /\ can_poll(pc, c)
    /\ pc[c] = "connecting"
    /\ \E ok \in BOOLEAN :
         LET s == new_step(ok, is_browserstack) IN
         /\ errs' = [errs EXCEPT ![c] = IF ok THEN @ ELSE @ \cup {"new"}]
         /\ Advance(c, s.pc, s.log, result[c], s.outcome, s.panic)
    /\ UNCHANGED <<script_value, server_vars, stop_calls, exit_status, input_vars>>

\* driver.get(..).await resolves.
SessionGet(c) ==
    /\ main_pc = "sessions"
    /\ can_poll(pc, c)
    /\ pc[c] = "navigating"
    /\ \E ok \in BOOLEAN :
         /\ errs' = [errs EXCEPT ![c] = IF ok THEN @ ELSE @ \cup {"get"}]
         /\ TestSuiteStep(c, get_step(ok))
    /\ UNCHANGED <<script_value, server_vars, stop_calls, exit_status, input_vars>>

\* driver.execute_async_script(script).await resolves: with a WebDriver error, or
\* (only if the page's entry point appears and settles) with the value given to done().
SessionScript(c) ==
    /\ main_pc = "sessions"
    /\ can_poll(pc, c)
    /\ pc[c] = "scripting"
    /\ \/ /\ errs' = [errs EXCEPT ![c] = @ \cup {"script"}]
          /\ script_value' = script_value
          /\ TestSuiteStep(c, script_step(FALSE, NoValue, is_browserstack))
       \/ /\ entry_point[c]
          /\ \E v \in ScriptValues :
               /\ script_value' = [script_value EXCEPT ![c] = v]
               /\ TestSuiteStep(c, script_step(TRUE, v, is_browserstack))
          /\ errs' = errs
    /\ UNCHANGED <<server_vars, stop_calls, exit_status, input_vars>>

\* The setSessionStatus driver.execute_script(..).await resolves (farm mode only).
SessionReport(c) ==
    /\ main_pc = "sessions"
    /\ can_poll(pc, c)
    /\ pc[c] = "reporting"
    /\ \E ok \in BOOLEAN :
         /\ errs' = [errs EXCEPT ![c] = IF ok THEN @ ELSE @ \cup {"report"}]
         /\ TestSuiteStep(c, report_step(ok, script_value[c]))
    /\ UNCHANGED <<script_value, server_vars, stop_calls, exit_status, input_vars>>

\* driver.quit().await resolves.
SessionQuit(c) ==
    /\ main_pc = "sessions"
    /\ can_poll(pc, c)
    /\ pc[c] = "releasing"
    /\ \E ok \in BOOLEAN :
         LET s == quit_step(ok, result[c], is_browserstack, outcome[c]) IN
         /\ errs' = [errs EXCEPT ![c] = IF ok THEN @ ELSE @ \cup {"quit"}]
         /\ Advance(c, s.pc, s.log, result[c], s.outcome, s.panic)
    /\ UNCHANGED <<script_value, server_vars, stop_calls, exit_status, input_vars>>

\* Farm mode: join_all resolves and the results are reduced.
JoinAll ==
    /\ main_pc = "sessions"
    /\ is_browserstack
    /\ join_all_ready(pc, capabilities_set)
    /\ IF any_failed(outcome, capabilities_set)
       THEN /\ main_pc' = "panicked"
            /\ panic_msg' = "At least one test failed"
            /\ main_trace' = main_trace \o << "joined", "panic!" >>
       ELSE /\ main_pc' = "stop"
            /\ panic_msg' = panic_msg
            /\ main_trace' = main_trace \o << "joined", "returned" >>
    /\ UNCHANGED <<server_vars, stop_calls, exit_status, input_vars, session_vars>>

----------------------------------------------------------------------------
\* cmd, after run_tests

\* server_handle.stop(true) is called; the main thread awaits the returned future.
MainStop ==
    /\ main_pc = "stop"
    /\ stop_calls' = stop_calls + 1
    /\ main_pc' = "await_stop"
    /\ main_trace' = Append(main_trace, "stop")
    /\ UNCHANGED <<panic_msg, server_vars, exit_status, input_vars, session_vars>>

\* The stop future resolves once the server has stopped.
MainStopResolved ==
    /\ main_pc = "await_stop"
    /\ server_pc \in {"stopped", "exited", "panicked"}
    /\ main_pc' = "join"
    /\ UNCHANGED <<main_trace, panic_msg, server_vars, stop_calls, exit_status,
                   input_vars, session_vars>>

\* server_thread.join().unwrap()
MainJoin ==
    /\ main_pc = "join"
    /\ join(server_pc) # "Block"
    /\ IF join(server_pc) = "Ok"
       THEN main_pc' = "done" /\ panic_msg' = panic_msg
       ELSE main_pc' = "panicked" /\ panic_msg' = "join.unwrap"
    /\ main_trace' = Append(main_trace, "join")
    /\ UNCHANGED <<server_vars, stop_calls, exit_status, input_vars, session_vars>>

\* The main thread has returned or unwound: the process exits, which ends the server
\* thread wherever it is.
ProcessExit ==
    /\ main_pc \in {"done", "panicked"}
    /\ exit_status = "none"
    /\ exit_status' = IF main_pc = "done" THEN "0" ELSE "101"
    /\ server_pc' = IF server_pc \in {"exited", "panicked"} THEN server_pc ELSE "killed"
    /\ UNCHANGED <<server_trace, rx, tx_alive, handles_sent, stop_calls, main_vars,
                   input_vars, session_vars>>

----------------------------------------------------------------------------
Next ==
    \/ ServerCert
    \/ ServerBind
    \/ ServerSend
    \/ ServerStop
    \/ ServerExit
    \/ MainRecv
    \/ MainRunTests
    \/ \E c \in Configs : SessionNew(c)
    \/ \E c \in Configs : SessionGet(c)
    \/ \E c \in Configs : SessionScript(c)
    \/ \E c \in Configs : SessionReport(c)
    \/ \E c \in Configs : SessionQuit(c)
    \/ JoinAll
    \/ MainStop
    \/ MainStopResolved
    \/ MainJoin
    \/ ProcessExit

Spec == Init /\ [][Next]_vars

\* The page of configuration c sets window.runAllTests3x and the promise settles, so
\* execute_async_script resolves.
ScriptResolves(c) == entry_point[c] /\ SessionScript(c)

\* Both threads keep being scheduled, the executor keeps polling the futures that
\* can make progress, and every request other than the wait for an entry point that
\* never appears is answered.
Fairness ==
    /\ WF_vars(ServerCert) /\ WF_vars(ServerBind) /\ WF_vars(ServerSend)
    /\ WF_vars(ServerStop) /\ WF_vars(ServerExit)
    /\ WF_vars(MainRecv) /\ WF_vars(MainRunTests) /\ WF_vars(JoinAll)
    /\ WF_vars(MainStop) /\ WF_vars(MainStopResolved) /\ WF_vars(MainJoin)
    /\ WF_vars(ProcessExit)
    /\ \A c \in Configs :
         /\ WF_vars(SessionNew(c)) /\ WF_vars(SessionGet(c)) /\ WF_vars(ScriptResolves(c))
         /\ WF_vars(SessionReport(c)) /\ WF_vars(SessionQuit(c))

FairSpec == Spec /\ Fairness

----------------------------------------------------------------------------
\* Properties

InSeq(x, q) == \E i \in 1..Len(q) : q[i] = x
Launched == InSeq("run_tests", main_trace)
\* The outcome fixed by test_suite_all_tests_3x's return value.
Classified(r) == IF r.tag = "Ok" THEN "Passed" ELSE "RunFailed"
IsSuccess(v) == v.kind = "string" /\ v.s = "SUCCESS"

\* C1: in farm mode a session that ends unsuccessfully (connection, run, report or
\* release failure) never cancels or abandons a sibling session, and when the run is
\* over every submitted configuration has delivered exactly one outcome to the final
\* reduction.
C1_NoSiblingAbandoned ==
    is_browserstack =>
      /\ \A c \in capabilities_set : pc[c] # "abandoned"
      /\ (exit_status # "none" /\ Launched) =>
            /\ InSeq("joined", main_trace)
            /\ \A c \in capabilities_set : outcome[c] # "none"

\* C2: no session is opened, and no navigation is issued, before the server thread
\* has bound its listener and sent its handle, whatever the interleaving of the two
\* threads.
C2_NoSessionBeforeHandle ==
    \A c \in Configs :
      trace[c] # <<>> => /\ handles_sent >= 1
                         /\ server_pc \notin {"cert", "bind", "send"}

C2_Witness ==
    \E c \in Configs : "get" \in Ops(trace[c]) /\ server_pc = "serving"

\* C3: when the handle was published and every session reached a terminal outcome,
\* stop is called exactly once, and before the aggregate failure is raised (so also
\* when some outcome is not Passed).
C3_StopOnceBeforeFailure ==
    ( /\ handles_sent >= 1
      /\ Launched
      /\ \A c \in capabilities_set : pc[c] = "done"
      /\ exit_status # "none" )
    => /\ stop_calls = 1
       /\ panic_msg \in {"At least one test failed", "test_suite_all_tests_3x.unwrap",
                         "WebDriver::new.unwrap"}
            => InSeq("stop", main_trace)

\* C4: the asset server is not stopped or torn down before every launched session has
\* reached a terminal outcome.
C4_NoTeardownBeforeOutcomes ==
    (stop_calls > 0 \/ server_pc \in {"stopped", "exited", "killed"})
    => \A c \in capabilities_set : pc[c] \notin NonTerminal \cup {"abandoned"}

\* C5: a failing farm status report does not change the outcome already determined
\* by the script result: SUCCESS stays Passed, anything else stays RunFailed.
C5_ReportFailureKeepsOutcome ==
    \A c \in Configs :
      ("report" \in errs[c] /\ outcome[c] # "none")
      => outcome[c] = IF IsSuccess(script_value[c]) THEN "Passed" ELSE "RunFailed"

\* C6: every session that was opened is released (quit) exactly once, whatever its
\* outcome, in farm mode and in local mode.
C6_ReleasedExactlyOnce ==
    \A c \in Configs :
      /\ Count(trace[c], "quit") <= 1
      /\ (exit_status # "none" /\ "get" \in Ops(trace[c]))
           => Count(trace[c], "quit") = 1

\* C7: a failing release does not abort the run, and the outcome delivered for the
\* session is the one determined before the release was attempted.
C7_ReleaseFailureKeepsOutcome ==
    \A c \in Configs :
      "quit" \in errs[c]
      => /\ panic_msg # "quit.unwrap"
         /\ outcome[c] = Classified(result[c])

\* C8: the run succeeds (exit status 0) if and only if every session's outcome is
\* Passed; a non-Passed outcome is raised as the aggregate failure (farm) or as a
\* fatal error (local).
C8_SuccessIffAllPassed ==
    (exit_status # "none" /\ Launched /\ server_pc # "panicked")
    => ( exit_status = "0"
         <=> \A c \in capabilities_set : Classified(result[c]) = "Passed" )

\* C9: a session whose open fails has a connection-failure outcome, never a
\* run-failure one, and nothing is issued for it afterwards: no navigation, no script,
\* no status report, no release.
C9_ConnectFailureIsolated ==
    \A c \in Configs :
      "new" \in errs[c]
      => /\ outcome[c] = "ConnectionFailed"
         /\ Ops(trace[c]) \cap {"get", "execute_async_script", "execute_script", "quit"} = {}

C9_Witness ==
    \E c \in Configs :
      "new" \in errs[c] /\ is_browserstack /\ InSeq("joined", main_trace)

\* C10: in farm mode, when the script result is not the success sentinel, the
\* "Tests failed" log entry is emitted, and it precedes the "failed" status report, so
\* it is in the log also when the report call fails.
C10_FailureLoggedBeforeReport ==
    \A c \in Configs :
      /\ (is_browserstack /\ script_value[c] # NoValue /\ ~IsSuccess(script_value[c]))
           => \E i \in 1..Len(trace[c]) :
                trace[c][i] = Ev("error", <<"Tests failed: ", as_str_unwrap_or(script_value[c])>>)
      /\ \A j \in 1..Len(trace[c]) :
           trace[c][j] = Ev("execute_script", <<"failed">>)
           => \E i \in 1..(j-1) :
                /\ trace[c][i].op = "error"
                /\ trace[c][i].arg[1] = "Tests failed: "

C10_Witness ==
    \E c \in Configs :
      /\ "report" \in errs[c]
      /\ ~IsSuccess(script_value[c])
      /\ \E i \in 1..Len(trace[c]) : trace[c][i].op = "error"
                                     /\ trace[c][i].arg[1] = "Tests failed: "

\* C11: the script result "SUCCESS" is classified Passed; any other result (another
\* string, or a value that is not a string) is classified RunFailed, and the RunFailed
\* result carries the returned string as its reason, in farm mode and in local mode.
C11_ClassificationCarriesReason ==
    \A c \in Configs :
      (script_value[c] # NoValue /\ result[c] # NoResult)
      => IF IsSuccess(script_value[c])
         THEN Classified(result[c]) = "Passed"
         ELSE /\ result[c].tag = "Err"
              /\ InSeq(as_str_unwrap_or(script_value[c]), result[c].msg)

\* C12: a session reports "passed" only if its script result was the success sentinel
\* and "failed" only otherwise, it sends at most one status report, and no report is
\* sent when is_browserstack is false.
C12_ReportMatchesClassification ==
    \A c \in Configs :
      /\ Count(trace[c], "execute_script") <= 1
      /\ \A i \in 1..Len(trace[c]) :
           trace[c][i].op = "execute_script"
           => /\ is_browserstack
              /\ script_value[c] # NoValue
              /\ trace[c][i].arg =
                   IF IsSuccess(script_value[c]) THEN <<"passed">> ELSE <<"failed">>

C12_Witness ==
    \E c, d \in Configs :
      /\ pc[c] = "done" /\ Ev("execute_script", <<"passed">>) \in
                             { trace[c][i] : i \in 1..Len(trace[c]) }
      /\ pc[d] = "done" /\ Ev("execute_script", <<"failed">>) \in
                             { trace[d][i] : i \in 1..Len(trace[d]) }

\* The server thread panicked before it could serve: certificate generation or the
\* bind failed.
ServerFailedToStart ==
    InSeq("cert_err", server_trace) \/ InSeq("bind_err", server_trace)

\* C13: when certificate generation or the bind fails, no session is ever started,
\* the run cannot succeed, and the main thread blocked on the hand-off does not wait
\* forever: the run ends with a failure.
C13_StartupFailureAborts ==
    /\ [](ServerFailedToStart =>
            /\ \A c \in Configs : pc[c] = "init" /\ trace[c] = <<>>
            /\ main_pc \in {"recv", "panicked"}
            /\ exit_status # "0")
    /\ (ServerFailedToStart ~> (exit_status = "101" /\ panic_msg = "recv.unwrap"))

C13_Witness ==
    /\ InSeq("bind_err", server_trace)
    /\ exit_status = "101"
    /\ panic_msg = "recv.unwrap"

\* C14: the handle is sent at most once, only after the bind succeeded, exactly once
\* when the server is serving, and never when certificate generation or the bind
\* failed.
C14_HandlePublishedOnce ==
    /\ handles_sent <= 1
    /\ handles_sent = Cardinality({ i \in 1..Len(server_trace) : server_trace[i] = "send" })
    /\ handles_sent = 1 => SubSeq(server_trace, 1, 3) = << "cert_ok", "bind_ok", "send" >>
    /\ ServerFailedToStart => handles_sent = 0
    /\ server_pc \in {"serving", "stopped", "exited"} => handles_sent = 1

C14_Witness ==
    /\ handles_sent = 1
    /\ InSeq("recv", main_trace)
    /\ server_pc = "exited"

\* C15: a session whose page never provides the entry point stays in its script wait
\* (it leaves it only if the WebDriver call itself fails or the run is unwound), and
\* while it stays blocked every other session whose page responds still reaches its
\* outcome and, if it was opened, is released.
C15_BlockedSessionDoesNotBlockOthers ==
    /\ [][ \A c \in Configs :
             (pc[c] = "scripting" /\ ~entry_point[c] /\ pc'[c] # "scripting")
             => ("script" \in errs'[c] \/ pc'[c] = "abandoned") ]_vars
    /\ \A c, d \in Configs :
         (c # d /\ is_browserstack /\ entry_point[d] /\ <>[](pc[c] = "scripting"))
         => <>( /\ pc[d] = "done"
                /\ outcome[d] # "none"
                /\ "get" \in Ops(trace[d]) => Count(trace[d], "quit") = 1 )

C15_Witness ==
    \E c, d \in Configs :
      /\ c # d
      /\ pc[c] = "scripting" /\ ~entry_point[c]
      /\ pc[d] = "done" /\ outcome[d] = "Passed" /\ Count(trace[d], "quit") = 1

\* C16: when the failure of the run is raised, every configuration whose outcome is
\* not Passed has an error entry in the log (all of a session's entries carry its
\* browser_name), for connection failures and run failures, in farm and local mode.
C16_FailuresLoggedBeforeRaise ==
    panic_msg \in {"At least one test failed", "test_suite_all_tests_3x.unwrap",
                   "WebDriver::new.unwrap"}
    => \A c \in capabilities_set :
         outcome[c] \notin {"none", "Passed"}
         => \E i \in 1..Len(trace[c]) : trace[c][i].op = "error"

\* Every launched session ran to completion and yielded Passed.
AllPassed ==
    Launched /\ \A c \in capabilities_set : pc[c] = "done" /\ outcome[c] = "Passed"

\* C17: when every session terminates with Passed, stop is requested, the main thread
\* goes on to join only after the stop resolved, it returns only after the server
\* thread has ended, and the run terminates.
C17_ShutdownBeforeReturn ==
    /\ [](main_pc \in {"join", "done"} =>
            /\ stop_calls = 1
            /\ InSeq("stopped", server_trace))
    /\ [](main_pc = "done" => server_pc = "exited")
    /\ [](exit_status = "0" => (AllPassed /\ server_pc = "exited"))
    /\ [](panic_msg = "join.unwrap" => InSeq("await_err", server_trace))
    /\ (AllPassed ~> (stop_calls = 1 /\ exit_status # "none"
                      /\ server_pc \in {"exited", "panicked"}))

C17_Witness ==
    AllPassed /\ exit_status = "0" /\ server_pc = "exited" /\ stop_calls = 1

\* C18: in farm mode, when the navigation or the script execution returns a WebDriver
\* error, the session's result is that error (a run failure), no status report is
\* sent for it, and its release is issued; the outcome it yields is RunFailed.
C18_WebDriverErrorNoReport ==
    \A c \in Configs :
      (is_browserstack /\ errs[c] \cap {"get", "script"} # {})
      => /\ result[c] = WebDriverError
         /\ "execute_script" \notin Ops(trace[c])
         /\ Count(trace[c], "quit") = 1
         /\ outcome[c] \in {"none", "RunFailed"}
         /\ pc[c] = "done" =>
              /\ outcome[c] = "RunFailed"
              /\ trace[c][Len(trace[c])] = Ev("error", <<"Run error: ", "WebDriverError">>)

C18_Witness ==
    \E c, d \in Configs :
      /\ is_browserstack
      /\ "script" \in errs[c] /\ pc[c] = "done"
      /\ "get" \in errs[d] /\ pc[d] = "done"

\* Position of a WebDriver request in the order open, navigate, script wait, status
\* report, release (0: a log entry).
ReqRank(op) ==
    CASE op = "WebDriver::new" -> 1
      [] op = "get" -> 2
      [] op = "execute_async_script" -> 3
      [] op = "execute_script" -> 4
      [] op = "quit" -> 5
      [] OTHER -> 0

\* C19 as stated: in farm mode no outcome is delivered before the session's release
\* was attempted.
C19_OutcomeOnlyAfterRelease ==
    is_browserstack =>
      \A c \in Configs : outcome[c] # "none" => "quit" \in Ops(trace[c])

\* C19 amended: in farm mode the requests of a session are issued in the order open,
\* navigate, script wait, status report, release; a session that was opened yields its
\* outcome, and its "Run error" entry, only after its release returned; a session
\* whose open failed yields its outcome without a release.
C19_FixedOrderThenOutcome ==
    is_browserstack =>
      \A c \in Configs :
        /\ \A i, j \in 1..Len(trace[c]) :
             (i < j /\ ReqRank(trace[c][i].op) > 0 /\ ReqRank(trace[c][j].op) > 0)
             => ReqRank(trace[c][i].op) < ReqRank(trace[c][j].op)
        /\ (outcome[c] # "none" /\ "new" \notin errs[c])
             => /\ pc[c] = "done"
                /\ "quit" \in Ops(trace[c])
                /\ "quit" \notin errs[c]
        /\ (outcome[c] # "none" /\ "new" \in errs[c]) => "quit" \notin Ops(trace[c])
        /\ \A i \in 1..Len(trace[c]) :
             (trace[c][i].op = "error" /\ trace[c][i].arg[1] = "Run error: ")
             => \E j \in 1..(i-1) : trace[c][j].op = "quit"

C19_Witness ==
    \E c \in Configs :
      /\ is_browserstack
      /\ pc[c] = "done" /\ outcome[c] = "RunFailed"
      /\ "report" \in errs[c]
      /\ Count(trace[c], "quit") = 1

====
